---- MODULE Spec2Model ----
(***************************************************************************)
(* The image pull-and-cache engine of singularity: Shub.Pull, OciPull and  *)
(* Oras.Pull over a content-addressed cache, with the interruptCleanup     *)
(* watcher, the remote tag and the file system as the environment.         *)
(***************************************************************************)
EXTENDS Integers, Sequences, FiniteSets, TLC

VARIABLES
    backend,   \* which Pull runs in this behaviour: "shub", "oci" or "oras"
    disabled,  \* cache.Handle.IsDisabled(), read-only for the behaviour
    remote,    \* the image the remote tag of the reference names now
    fs,        \* the file system: path -> file (absent, or present with bytes)
    guards,    \* paths watched by the interruptCleanup goroutines of the process
    pull,      \* per caller: the position and locals of its Pull call
    prev,      \* per caller: the record of its previous Pull call
    npulls     \* number of Pull calls started

vars == <<backend, disabled, remote, fs, guards, pull, prev, npulls>>

\* ---------------------------------------------------------------- bounds
MaxPulls == 2

\* ------------------------------------------------------------ the world
Backends == {"shub", "oci", "oras"}

\* The two payloads the reference's tag can name.
Images == {<<1, 2>>, <<2, 1>>}

\* Permission bits as a set; the process runs with umask 022.
Umask == {"gw", "ow"}

\* 0666, what an ordinary create asks for.
FilePerm == {"ur", "uw", "gr", "gw", "or", "ow"}

\* 0755, what openOutputImage asks for.
OutputPerm == {"ur", "uw", "ux", "gr", "gx", "or", "ox"}

Absent == [ex |-> FALSE, data |-> <<>>, mode |-> {}]

File(bytes) == [ex |-> TRUE, data |-> bytes, mode |-> FilePerm \ Umask]

OpenFileNoTrunc(f, perm) ==
    IF f.ex THEN f
    ELSE [ex |-> TRUE, data |-> <<>>, mode |-> perm \ Umask]

\* os.OpenFile(path, O_CREATE|O_TRUNC|O_WRONLY, perm) when it succeeds: a file
\* that exists is emptied and keeps its mode, a new one gets perm less umask.
OpenFile(f, perm) ==
    IF f.ex THEN [f EXCEPT !.data = <<>>]
    ELSE [ex |-> TRUE, data |-> <<>>, mode |-> perm \ Umask]

\* Writing bytes from offset 0 into an open file.
Overwrite(old, new) == new \o SubSeq(old, Len(new) + 1, Len(old))

RECURSIVE Hash(_)
\* The content hash of a byte string (sha256 in the program), as a polynomial
\* hash over 16 bits.
Hash(bytes) ==
    IF bytes = <<>> THEN 7
    ELSE (Hash(SubSeq(bytes, 1, Len(bytes) - 1)) * 31 + bytes[Len(bytes)]) % 65536

Sums == {Hash(img) : img \in Images}

Prefixes(bytes) == {SubSeq(bytes, 1, k) : k \in 0..Len(bytes)}

\* uri.GetName(reference): the image's file name, also the default output name.
GetName == "img.sif"

\* A relative file name is a path in the working directory.
Cwd(name) == <<"cwd", 0, name>>

Dests == {Cwd(GetName), Cwd("out.sif")}

CachePathOfName(sum) == <<"cache", 0, GetName>>

\* cache.Handle.ShubImage / OciTempImage / OrasImage: a pure function of the
\* checksum and the name.
CachePath(sum) == <<"cache", sum, GetName>>

CachePaths == {CachePath(s) : s \in Sums}

Paths == CachePaths \cup Dests

\* ------------------------------------------------- decisions of the code
\* The Pull consults the cache unless the handle is disabled; Oras.Pull never
\* asks IsDisabled.
UsesCache(b, dis) == b = "oras" \/ ~dis

\* Only Oras.Pull treats cache.ErrBadChecksum apart from other errors.
HandlesBadChecksum(b) == b = "oras"

NeedFetchAlways(exists) == TRUE

\* if !exists { ... download ... }
NeedFetch(exists) == ~exists

\* The argument of `go interruptCleanup(...)`.
GuardPath(b, sum) == IF b = "oci" THEN Cwd(GetName) ELSE CachePath(sum)

\* Only Oras.Pull re-hashes the downloaded file.
Verifies(b) == b = "oras"

HashMatchesAlways(h, sum) == TRUE

\* cacheFileHash != sum is the integrity failure.
HashMatches(h, sum) == h = sum

\* Whether the fetcher streams bytes into its target (a download) or produces
\* the complete file in one step (the build pipeline).
Streams(b) == b # "oci"

\* ------------------------------------------------------------ the cache
ExistsByStat(files, sum) ==
    IF files[CachePath(sum)].ex THEN <<TRUE, "nil">> ELSE <<FALSE, "nil">>

\* cache.Handle.*Exists: <<exists, err>> for the entry of sum.
Exists(files, sum) ==
    LET f == files[CachePath(sum)] IN
    IF ~f.ex THEN <<FALSE, "nil">>
    ELSE IF Hash(f.data) = sum THEN <<TRUE, "nil">>
    ELSE <<FALSE, "ErrBadChecksum">>

Valid(files, sum) == files[CachePath(sum)].ex /\ Hash(files[CachePath(sum)].data) = sum

\* ------------------------------------------------------------ the calls
Terminal == {"Done", "ResolutionFailed", "CheckFailed", "RemoveFailed", "FetchFailed",
             "HashFailed", "IntegrityFailed", "CopyFailed", "Killed"}

Failures == Terminal \ {"Done", "Killed"}

Idle == [pc |-> "idle", to |-> Cwd(GetName), sum |-> 0, exists |-> FALSE, err |-> "nil",
         target |-> Cwd(GetName), stream |-> <<>>, fetches |-> 0, cacheOps |-> {},
         off |-> 0, armed |-> FALSE, verified |-> FALSE, opened |-> FALSE,
         killedAt |-> "none", destBefore |-> Absent, entryAtCopy |-> Absent,
         handles |-> {}]

\* What a caller keeps of its previous Pull: how it ended, for which identifier,
\* and how often it called the fetcher.
Summary(c) == [pc |-> c.pc, sum |-> c.sum, to |-> c.to, fetches |-> c.fetches]

Resting(c) == c.pc \in Terminal \cup {"idle"}

Set(p, c) == pull' = [pull EXCEPT ![p] = c]

\* A caller starts a Pull(from, to); callers of one process pull one at a time.
Start(p, to) ==
    /\ Resting(pull[p])
    /\ \A q \in DOMAIN pull : Resting(pull[q])
    /\ npulls < MaxPulls
    /\ npulls' = npulls + 1
    /\ prev' = [prev EXCEPT ![p] = Summary(pull[p])]
    /\ Set(p, [Idle EXCEPT !.pc = "resolve", !.to = to, !.target = to,
                           !.destBefore = fs[to]])
    /\ UNCHANGED <<backend, disabled, remote, fs, guards>>

AfterIdentifyIgnoresError(ok) == "checkDisabled"

\* if err != nil { return fmt.Errorf("failed to get checksum ...") }
AfterIdentify(ok) == IF ok THEN "checkDisabled" ELSE "ResolutionFailed"

\* oras.ImageSHA / ociclient.ImageSHA / shub.GetManifest: the identifier of what
\* the tag names now, or an error.
Identify(p) ==
    /\ pull[p].pc = "resolve"
    /\ \/ Set(p, [pull[p] EXCEPT !.pc = AfterIdentify(TRUE), !.sum = Hash(remote)])
       \/ Set(p, [pull[p] EXCEPT !.pc = AfterIdentify(FALSE)])
    /\ UNCHANGED <<backend, disabled, remote, fs, guards, prev, npulls>>

\* if cache.IsDisabled() { download to `to` } else { ... }
CheckDisabled(p) ==
    /\ pull[p].pc = "checkDisabled"
    /\ IF UsesCache(backend, disabled)
       THEN Set(p, [pull[p] EXCEPT !.pc = "exists"])
       ELSE Set(p, [pull[p] EXCEPT !.pc = "fetch", !.target = pull[p].to])
    /\ UNCHANGED <<backend, disabled, remote, fs, guards, prev, npulls>>

AfterCheckErrorIsMiss == "arm"

\* if err != nil { return fmt.Errorf("unable to check if %s exists: ...") }
AfterCheckError == "CheckFailed"

\* exists, err := cache.*Exists(sum, name), and the branches on its result.
CheckCache(p) ==
    /\ pull[p].pc = "exists"
    /\ \E r \in {Exists(fs, pull[p].sum), <<FALSE, "EIO">>} :
         Set(p, [pull[p] EXCEPT
                   !.exists = r[1], !.err = r[2],
                   !.cacheOps = @ \cup {"exists"},
                   !.pc = IF r[2] = "nil"
                            THEN IF NeedFetch(r[1]) THEN "arm" ELSE "open"
                          ELSE IF r[2] = "ErrBadChecksum" /\ HandlesBadChecksum(backend)
                            THEN "remove"
                          ELSE AfterCheckError])
    /\ UNCHANGED <<backend, disabled, remote, fs, guards, prev, npulls>>

RemoveNothing(files, path) == files

\* os.Remove(path) when it succeeds.
RemoveFile(files, path) == [files EXCEPT ![path] = Absent]

AfterRemoveErrorIgnored == "arm"

\* if err != nil { return fmt.Errorf("unable to remove corrupted cache: ...") }
AfterRemoveError == "RemoveFailed"

\* os.Remove(cacheImagePath) of the corrupt entry; its failure ends the Pull.
Remove(p) ==
    /\ pull[p].pc = "remove"
    /\ \/ /\ fs' = RemoveFile(fs, CachePath(pull[p].sum))
          /\ Set(p, [pull[p] EXCEPT
                       !.cacheOps = @ \cup {"remove"},
                       !.pc = IF NeedFetch(pull[p].exists) THEN "arm" ELSE "open"])
       \/ /\ fs' = fs
          /\ Set(p, [pull[p] EXCEPT !.cacheOps = @ \cup {"remove"},
                                    !.pc = AfterRemoveError])
    /\ UNCHANGED <<backend, disabled, remote, guards, prev, npulls>>

MayFetchSingleFlight(p) ==
    \A q \in DOMAIN pull \ {p} :
        ~(pull[q].pc \in {"fetch", "fetching"} /\ pull[q].target = CachePath(pull[p].sum))

\* Between `if !exists` and the call of the fetcher a Pull takes no lock and
\* looks at no other Pull.
MayFetch(p) == TRUE

\* go interruptCleanup(path): one more watcher in the process.
Arm(p) ==
    /\ pull[p].pc = "arm"
    /\ MayFetch(p)
    /\ guards' = guards \cup {GuardPath(backend, pull[p].sum)}
    /\ Set(p, [pull[p] EXCEPT !.pc = "fetch", !.armed = TRUE,
                              !.target = CachePath(pull[p].sum)])
    /\ UNCHANGED <<backend, disabled, remote, fs, prev, npulls>>

Touch(c) == IF c.target \in CachePaths THEN c.cacheOps \cup {"write"} ELSE c.cacheOps

AfterFetchErrorRetries == "fetch"

\* if err := DownloadImage(...); err != nil { return ... }: the error of the
\* fetcher is returned as it comes.
AfterFetchError == "FetchFailed"

\* The fetcher is called (DownloadImage / convertDockerToSIF): it fails at once,
\* or starts on the payload the tag names now; a download creates or truncates
\* its target file.
FetchOpen(p) ==
    /\ pull[p].pc = "fetch"
    /\ \/ /\ Set(p, [pull[p] EXCEPT !.pc = AfterFetchError, !.fetches = @ + 1])
          /\ fs' = fs
       \/ /\ Set(p, [pull[p] EXCEPT !.pc = "fetching", !.fetches = @ + 1,
                                    !.stream = remote, !.off = 0,
                                    !.cacheOps = Touch(pull[p])])
          /\ fs' = IF Streams(backend)
                     THEN [fs EXCEPT ![pull[p].target] = File(<<>>)]
                     ELSE fs
    /\ UNCHANGED <<backend, disabled, remote, guards, prev, npulls>>

\* A write of one byte at offset off into an open file.
WriteAt(data, off, byte) ==
    [i \in 1..(IF Len(data) > off + 1 THEN Len(data) ELSE off + 1) |->
        IF i = off + 1 THEN byte ELSE IF i <= Len(data) THEN data[i] ELSE 0]

\* The fetcher writes: a download its next byte, the build its whole output.
FetchWrite(p) ==
    /\ pull[p].pc = "fetching"
    /\ pull[p].off < Len(pull[p].stream)
    /\ LET c == pull[p]
           f == fs[c.target] IN
       IF Streams(backend)
       THEN /\ fs' = IF f.ex
                       THEN [fs EXCEPT ![c.target] =
                                File(WriteAt(f.data, c.off, c.stream[c.off + 1]))]
                       ELSE fs
            /\ Set(p, [c EXCEPT !.off = @ + 1])
       ELSE /\ fs' = [fs EXCEPT ![c.target] = File(c.stream)]
            /\ Set(p, [c EXCEPT !.off = Len(c.stream)])
    /\ UNCHANGED <<backend, disabled, remote, guards, prev, npulls>>

AfterFetchSkips(b) == "open"

\* What follows a fetch into the cache that returned nil: the re-hash where
\* the code has one, the copy where it has none.
AfterFetch(b) == IF Verifies(b) THEN "hash" ELSE "open"

\* The fetcher returns nil once the payload is written.
FetchReturn(p) ==
    /\ pull[p].pc = "fetching"
    /\ pull[p].off = Len(pull[p].stream)
    /\ Set(p, [pull[p] EXCEPT
                 !.pc = IF pull[p].target = pull[p].to /\ ~UsesCache(backend, disabled)
                          THEN "Done"
                        ELSE AfterFetch(backend)])
    /\ UNCHANGED <<backend, disabled, remote, fs, guards, prev, npulls>>

\* The fetcher returns an error: a download at any point of the transfer, with
\* what it wrote left behind; the build before it produced its output.
FetchFail(p) ==
    /\ pull[p].pc = "fetching"
    /\ Streams(backend) \/ pull[p].off = 0
    /\ Set(p, [pull[p] EXCEPT !.pc = AfterFetchError])
    /\ UNCHANGED <<backend, disabled, remote, fs, guards, prev, npulls>>

\* oras.ImageHash(cacheImagePath) and the comparison with sum.
ImageHash(p) ==
    /\ pull[p].pc = "hash"
    /\ LET f == fs[CachePath(pull[p].sum)] IN
       \/ Set(p, [pull[p] EXCEPT !.pc = "HashFailed", !.cacheOps = @ \cup {"read"}])
       \/ /\ f.ex
          /\ Set(p, [pull[p] EXCEPT
                       !.cacheOps = @ \cup {"read"},
                       !.verified = HashMatches(Hash(f.data), pull[p].sum),
                       !.pc = IF HashMatches(Hash(f.data), pull[p].sum)
                                THEN "open" ELSE "IntegrityFailed"])
    /\ UNCHANGED <<backend, disabled, remote, fs, guards, prev, npulls>>

\* defer dstFile.Close() / defer srcFile.Close(): what is still open once
\* Pull has returned.
Deferred(handles) == {}

\* openOutputImage(to): O_CREATE|O_TRUNC|O_WRONLY with 0755, or an error.
OpenOutputImage(p) ==
    /\ pull[p].pc = "open"
    /\ \/ /\ fs' = [fs EXCEPT ![pull[p].to] = OpenFile(@, OutputPerm)]
          /\ Set(p, [pull[p] EXCEPT !.pc = "opensrc", !.opened = TRUE,
                                    !.handles = @ \cup {"dst"},
                                    !.entryAtCopy = fs[CachePath(pull[p].sum)]])
       \/ /\ fs' = fs
          /\ Set(p, [pull[p] EXCEPT !.pc = "CopyFailed",
                                    !.entryAtCopy = fs[CachePath(pull[p].sum)]])
    /\ UNCHANGED <<backend, disabled, remote, guards, prev, npulls>>

\* os.Open(cacheImagePath).
OpenCached(p) ==
    /\ pull[p].pc = "opensrc"
    /\ \/ /\ fs[CachePath(pull[p].sum)].ex
          /\ Set(p, [pull[p] EXCEPT !.pc = "copy", !.cacheOps = @ \cup {"read"},
                                    !.handles = @ \cup {"src"}])
       \/ Set(p, [pull[p] EXCEPT !.pc = "CopyFailed", !.cacheOps = @ \cup {"read"},
                                 !.handles = Deferred(@)])
    /\ UNCHANGED <<backend, disabled, remote, fs, guards, prev, npulls>>

\* io.Copy(dstFile, srcFile): all of the source, or an error after some of it.
Copy(p) ==
    /\ pull[p].pc = "copy"
    /\ LET src == fs[CachePath(pull[p].sum)].data IN
       \/ /\ fs' = [fs EXCEPT ![pull[p].to].data = Overwrite(@, src)]
          /\ Set(p, [pull[p] EXCEPT !.pc = "Done", !.handles = Deferred(@)])
       \/ \E part \in Prefixes(src) :
            /\ fs' = [fs EXCEPT ![pull[p].to].data = Overwrite(@, part)]
            /\ Set(p, [pull[p] EXCEPT !.pc = "CopyFailed", !.handles = Deferred(@)])
    /\ UNCHANGED <<backend, disabled, remote, guards, prev, npulls>>

\* ------------------------------------------------------ the environment
\* interruptCleanup on SIGINT/SIGTERM: every watcher removes its path and the
\* process exits; without a watcher the signal ends the process all the same.
\* A Pull in progress never returns; of the Pulls that had returned the dead
\* process keeps no record.
Interrupt ==
    /\ guards # {} \/ \E p \in DOMAIN pull : ~Resting(pull[p])
    /\ fs' = [path \in Paths |-> IF path \in guards THEN Absent ELSE fs[path]]
    /\ guards' = {}
    /\ pull' = [p \in DOMAIN pull |->
                  IF Resting(pull[p]) THEN Idle
                  ELSE [pull[p] EXCEPT !.killedAt = pull[p].pc, !.pc = "Killed"]]
    /\ prev' = [p \in DOMAIN prev |-> Summary(Idle)]
    /\ UNCHANGED <<backend, disabled, remote, npulls>>

\* The owner of the remote moves the tag to other content.
MoveTag ==
    /\ \E img \in Images \ {remote} : remote' = img
    /\ UNCHANGED <<backend, disabled, fs, guards, pull, prev, npulls>>

\* The process ends after its pulls have returned; its watchers end with it.
Exit ==
    /\ guards # {}
    /\ \A p \in DOMAIN pull : Resting(pull[p])
    /\ guards' = {}
    /\ UNCHANGED <<backend, disabled, remote, fs, pull, prev, npulls>>

\* -------------------------------------------------- the specification
Procs == {1}

InitCache == {Absent} \cup {File(img) : img \in Images}

\* A file of an earlier, unrelated run at the default output name.
Stale == File(<<9>>)

\* Any cache left by earlier runs, sound or corrupt; one output path holds an
\* old file and the other does not exist.
InitFor(P) ==
    /\ backend \in Backends
    /\ disabled \in BOOLEAN
    /\ remote \in Images
    /\ fs \in {f \in [Paths -> InitCache \cup {Stale}] :
                 /\ \A c \in CachePaths : f[c] \in InitCache
                 /\ f[Cwd(GetName)] = Stale
                 /\ f[Cwd("out.sif")] = Absent}
    /\ guards = {}
    /\ pull = [p \in P |-> Idle]
    /\ prev = [p \in P |-> Summary(Idle)]
    /\ npulls = 0

Init == InitFor(Procs)

Step(p) ==
    \/ \E to \in Dests : Start(p, to)
    \/ Identify(p)
    \/ CheckDisabled(p)
    \/ CheckCache(p)
    \/ Remove(p)
    \/ Arm(p)
    \/ FetchOpen(p)
    \/ FetchWrite(p)
    \/ FetchReturn(p)
    \/ FetchFail(p)
    \/ ImageHash(p)
    \/ OpenOutputImage(p)
    \/ OpenCached(p)
    \/ Copy(p)

Next ==
    \/ \E p \in Procs : Step(p)
    \/ Interrupt
    \/ MoveTag
    \/ Exit

Spec == Init /\ [][Next]_vars

\* Two callers of one process pull at the same time, each once, with the cache
\* enabled and empty.
StartConcurrent(p, to) ==
    /\ pull[p].pc = "idle"
    /\ Set(p, [Idle EXCEPT !.pc = "resolve", !.to = to, !.target = to,
                           !.destBefore = fs[to]])
    /\ UNCHANGED <<backend, disabled, remote, fs, guards, prev, npulls>>

ConcProcs == {1, 2}

InitConc ==
    /\ InitFor(ConcProcs)
    /\ ~disabled
    /\ \A path \in CachePaths : fs[path] = Absent

StepConc(p) ==
    \/ \E to \in Dests : StartConcurrent(p, to)
    \/ Identify(p)
    \/ CheckDisabled(p)
    \/ CheckCache(p)
    \/ Remove(p)
    \/ Arm(p)
    \/ FetchOpen(p)
    \/ FetchWrite(p)
    \/ FetchReturn(p)
    \/ FetchFail(p)
    \/ ImageHash(p)
    \/ OpenOutputImage(p)
    \/ OpenCached(p)
    \/ Copy(p)

NextConc == \E p \in ConcProcs : StepConc(p)

SpecConc == InitConc /\ [][NextConc]_vars

TypeOK ==
    /\ backend \in Backends
    /\ disabled \in BOOLEAN
    /\ remote \in Images
    /\ guards \subseteq Paths
    /\ npulls \in 0..MaxPulls

\* ------------------------------------------------------------ the claims
CopyStage(c) == c.pc \in {"open", "opensrc", "copy"} \/ c.opened

\* Where a Pull is, or was when the process was interrupted.
Position(c) == IF c.pc = "Killed" THEN c.killedAt ELSE c.pc

Resolved(c) == Position(c) \notin {"idle", "resolve", "ResolutionFailed"}

FetchStage == {"arm", "fetch", "fetching", "hash", "remove", "RemoveFailed",
               "FetchFailed", "HashFailed", "IntegrityFailed"}

\* C1: when a pull returns success, the destination file holds exactly the
\* bytes that hash to the identifier the pull resolved, on every backend.
C1_DestinationMatchesIdentifier ==
    \A p \in DOMAIN pull :
        pull[p].pc = "Done" =>
            /\ fs[pull[p].to].ex
            /\ Hash(fs[pull[p].to].data) = pull[p].sum

\* C2: with the cache handle disabled a pull performs no operation on any
\* path under the cache root, and what it fetches it fetches into the
\* destination.
C2_DisabledNeverTouchesCache ==
    \A p \in DOMAIN pull :
        disabled =>
            /\ pull[p].cacheOps = {}
            /\ ~pull[p].armed
            /\ pull[p].fetches > 0 => pull[p].target = pull[p].to
            /\ pull[p].pc = "Done" => pull[p].fetches = 1

\* C3: after an interruption during the fetch into a cache entry, once the
\* watcher's cleanup has run, the cache path the fetch was writing to does
\* not exist.
C3_InterruptLeavesNoPartial ==
    \A p \in DOMAIN pull :
        (/\ pull[p].pc = "Killed"
         /\ pull[p].killedAt \in {"fetch", "fetching"}
         /\ pull[p].target \in CachePaths)
        => ~fs[pull[p].target].ex

\* C4: with the cache enabled, a pull that follows a successful pull of the
\* same identifier calls the fetcher zero times and writes nothing to the
\* cache: it goes from the cache check to the copy (or fails in the check),
\* and the pull before it called the fetcher at most once.
C4_SecondPullFetchesNothing ==
    \A p \in DOMAIN pull :
        (/\ ~disabled
         /\ prev[p].pc = "Done"
         /\ Resolved(pull[p])
         /\ pull[p].sum = prev[p].sum)
        => /\ pull[p].fetches = 0
           /\ prev[p].fetches <= 1
           /\ ~pull[p].armed
           /\ pull[p].cacheOps \subseteq {"exists", "read"}
           /\ Position(pull[p]) \notin FetchStage
           /\ CopyStage(pull[p]) => pull[p].exists /\ pull[p].err = "nil"

C4_Witness ==
    \E p \in DOMAIN pull :
        /\ ~disabled
        /\ prev[p].pc = "Done"
        /\ prev[p].fetches = 1
        /\ pull[p].pc = "Done"
        /\ pull[p].sum = prev[p].sum
        /\ pull[p].to # prev[p].to
        /\ pull[p].fetches = 0

C6_IntegrityFailureDeletesEntry ==
    \A p \in DOMAIN pull :
        pull[p].pc = "IntegrityFailed" => ~fs[CachePath(pull[p].sum)].ex

\* C7: a Hub or Artifact-registry pull is in its copy stage only if, in this
\* pull, Exists returned (true, nil) or the one fetch was followed by a
\* re-hash that equalled the identifier.
C7_CopyOnlyAfterIntegrity ==
    \A p \in DOMAIN pull :
        (backend \in {"shub", "oras"} /\ CopyStage(pull[p]))
        => \/ pull[p].exists /\ pull[p].err = "nil"
           \/ pull[p].fetches = 1 /\ pull[p].verified

\* C8: with the cache enabled, the destination is opened only after the
\* steps before it succeeded, and a pull that ends in a failure state leaves
\* the destination as it was when the pull began.
C8_FailedPullLeavesDestination ==
    \A p \in DOMAIN pull :
        ~disabled =>
            /\ pull[p].opened =>
                 \/ pull[p].exists /\ pull[p].err = "nil"
                 \/ pull[p].fetches = 1 /\ (Verifies(backend) => pull[p].verified)
            /\ pull[p].pc \in Failures => fs[pull[p].to] = pull[p].destBefore

\* C9: a pull that ends in CopyFailed has left the cache entry as it was when
\* the copy stage began, and valid if this pull had found or verified it
\* valid; the pull that retries it for the same identifier never calls the
\* fetcher.
C9_CopyFailureKeepsEntry ==
    \A p \in DOMAIN pull :
        /\ pull[p].pc = "CopyFailed" =>
             /\ fs[CachePath(pull[p].sum)] = pull[p].entryAtCopy
             /\ fs[CachePath(pull[p].sum)].ex
             /\ (pull[p].exists \/ pull[p].verified) => Valid(fs, pull[p].sum)
        /\ (/\ prev[p].pc = "CopyFailed"
            /\ Resolved(pull[p])
            /\ pull[p].sum = prev[p].sum)
           => /\ pull[p].fetches = 0
              /\ Position(pull[p]) \notin FetchStage

C9_Witness ==
    \E p \in DOMAIN pull :
        /\ prev[p].pc = "CopyFailed"
        /\ pull[p].pc = "Done"
        /\ pull[p].sum = prev[p].sum
        /\ pull[p].to = prev[p].to
        /\ pull[p].fetches = 0
        /\ Valid(fs, pull[p].sum)

\* C10: on every backend a cache entry that fails verification (Exists gave
\* ErrBadChecksum) does not by itself end the pull with an error.
C10_CorruptionNeverFails ==
    \A p \in DOMAIN pull :
        pull[p].err = "ErrBadChecksum" => pull[p].pc # "CheckFailed"

C12_StepsInOrder ==
    \A p \in DOMAIN pull :
        LET c == pull[p]
            pos == Position(c)
            fetched == c.fetches = 1 /\ c.off = Len(c.stream) /\ pos # "FetchFailed" IN
        /\ ~Resolved(c) =>
              c.cacheOps = {} /\ c.fetches = 0 /\ ~c.armed /\ ~c.opened /\ ~c.verified
        /\ Resolved(c) => c.sum \in Sums
        /\ (c.target \in CachePaths /\ (c.armed \/ c.fetches > 0 \/ pos = "arm")) =>
              /\ "exists" \in c.cacheOps
              /\ ~c.exists
              /\ c.err = "nil" \/ "remove" \in c.cacheOps
        /\ (c.fetches > 0 /\ c.target \in CachePaths) => c.armed
        /\ (pos \in {"hash", "HashFailed", "IntegrityFailed"} \/ c.verified) => fetched
        /\ (pos \in {"open", "opensrc", "copy", "CopyFailed"} \/ c.opened) =>
              \/ c.exists /\ c.err = "nil" /\ c.fetches = 0
              \/ fetched /\ (Verifies(backend) => c.verified)
        /\ pos \in {"CheckFailed", "RemoveFailed"} =>
              c.fetches = 0 /\ ~c.armed /\ ~c.verified /\ ~c.opened
        /\ pos \in {"FetchFailed", "HashFailed", "IntegrityFailed"} =>
              /\ ~c.verified
              /\ ~c.opened
              /\ c.target \in CachePaths => fs[c.to] = c.destBefore

\* A pull that went through every step: missed, fetched, verified, copied.
C12_Witness ==
    \E p \in DOMAIN pull :
        /\ pull[p].pc = "Done"
        /\ pull[p].cacheOps = {"exists", "write", "read"}
        /\ pull[p].armed
        /\ pull[p].fetches = 1
        /\ pull[p].verified
        /\ pull[p].opened

\* C13: a watcher exists only while the fetch it guards is running, and an
\* interruption during verification or during the copy from the cache leaves
\* the cache entry in place.
C13_GuardOnlyDuringFetch ==
    /\ guards # {} =>
          \E p \in DOMAIN pull : pull[p].armed /\ pull[p].pc \in {"fetch", "fetching"}
    /\ \A p \in DOMAIN pull :
          (/\ pull[p].pc = "Killed"
           /\ pull[p].killedAt \in {"hash", "open", "opensrc", "copy"})
          => fs[CachePath(pull[p].sum)].ex

\* C14: concurrent pulls are not coordinated: whatever another pull of the
\* same identifier is doing, a pull that got "absent" from the cache check
\* can arm its watcher and call the fetcher, and a fetch in progress can
\* write.
C14_PullsNotCoordinated ==
    \A p \in DOMAIN pull :
        /\ pull[p].pc = "exists" => ENABLED CheckCache(p)
        /\ pull[p].pc = "arm" => ENABLED Arm(p)
        /\ pull[p].pc = "fetch" => ENABLED FetchOpen(p)
        /\ (pull[p].pc = "fetching" /\ pull[p].off < Len(pull[p].stream)) =>
              ENABLED FetchWrite(p)

\* Both pulls got (false, nil) for the same identifier and both are fetching
\* into the same cache path.
C14_Witness ==
    \E p, q \in DOMAIN pull :
        /\ p # q
        /\ pull[p].sum = pull[q].sum
        /\ pull[p].pc = "fetching" /\ pull[q].pc = "fetching"
        /\ ~pull[p].exists /\ pull[p].err = "nil"
        /\ ~pull[q].exists /\ pull[q].err = "nil"
        /\ pull[p].target = CachePath(pull[p].sum)
        /\ pull[q].target = pull[p].target

C16_ResolutionFailureDoesNothing ==
    /\ [](\A p \in DOMAIN pull :
            LET c == pull[p] IN
            /\ c.pc = "ResolutionFailed" =>
                  /\ c.cacheOps = {} /\ c.fetches = 0 /\ ~c.armed
                  /\ ~c.opened /\ c.handles = {}
                  /\ fs[c.to] = c.destBefore
            /\ c.sum \notin Sums =>
                  Position(c) \in {"idle", "resolve", "ResolutionFailed"})
    /\ [][\A p \in DOMAIN pull :
            (pull[p].pc = "resolve" /\ pull'[p].pc = "ResolutionFailed") =>
                fs' = fs /\ guards' = guards]_vars

\* Identify failed in a pull that follows a successful one, with an entry in
\* the cache and a file at the destination.
C16_Witness ==
    \E p \in DOMAIN pull :
        /\ pull[p].pc = "ResolutionFailed"
        /\ prev[p].pc = "Done"
        /\ Valid(fs, prev[p].sum)
        /\ fs[pull[p].to].ex
        /\ fs[pull[p].to] = pull[p].destBefore

\* C17: what a pull fetches is the content named by the identifier it
\* resolved, also when the tag was moved after the resolution.
C17_FetchedContentIsIdentified ==
    \A p \in DOMAIN pull :
        (pull[p].fetches > 0 /\ pull[p].stream # <<>>) =>
            Hash(pull[p].stream) = pull[p].sum

\* C18: a pull calls the fetcher at most once, and a pull whose fetch failed
\* has ended in FetchFailed with nothing verified, nothing read from the
\* cache, no file open and, when it was fetching into the cache, the
\* destination as it was.
C18_FetchNeverRetried ==
    \A p \in DOMAIN pull :
        LET c == pull[p] IN
        /\ c.fetches <= 1
        /\ c.pc = "FetchFailed" =>
              /\ c.fetches = 1
              /\ ~c.verified /\ ~c.opened /\ c.handles = {}
              /\ "read" \notin c.cacheOps
              /\ c.target \in CachePaths => fs[c.to] = c.destBefore

\* A download into the cache broke off after it had written a part.
C18_Witness ==
    \E p \in DOMAIN pull :
        /\ pull[p].pc = "FetchFailed"
        /\ pull[p].target = CachePath(pull[p].sum)
        /\ pull[p].off > 0
        /\ fs[pull[p].target].data = SubSeq(pull[p].stream, 1, pull[p].off)
        /\ fs[pull[p].to] = pull[p].destBefore

\* C19: the pull that retries, for the same identifier, a pull that ended in
\* FetchFailed with the cache enabled never takes what the failed fetch left
\* for a hit and never fails because of it.
C19_RetryAfterFetchFailure ==
    \A p \in DOMAIN pull :
        (/\ UsesCache(backend, disabled)
         /\ prev[p].pc = "FetchFailed"
         /\ Resolved(pull[p])
         /\ pull[p].sum = prev[p].sum)
        => /\ (pull[p].exists /\ pull[p].opened) =>
                 Hash(pull[p].entryAtCopy.data) = pull[p].sum
           /\ pull[p].pc = "CheckFailed" => pull[p].err # "ErrBadChecksum"

\* C20: a pull never serves cached content of another identifier. The cache
\* path of a pull is the path of its own identifier and of no other; what a
\* hit copies to the destination hashes to that identifier; and no step of a
\* pull changes the cache entry of any other identifier.
C20_NoContentOfAnotherIdentifier ==
    /\ [](\A p \in DOMAIN pull :
            LET c == pull[p] IN
            /\ Resolved(c) =>
                  \A s \in Sums \ {c.sum} : CachePath(s) # CachePath(c.sum)
            /\ (c.opened /\ c.fetches = 0) =>
                  /\ c.exists
                  /\ Hash(c.entryAtCopy.data) = c.sum
                  /\ fs[c.to].data \in Prefixes(c.entryAtCopy.data)
            /\ (c.pc = "Done" /\ c.opened /\ c.fetches = 0) =>
                  Hash(fs[c.to].data) = c.sum)
    /\ [][\A p \in DOMAIN pull :
            (pull'[p] # pull[p] /\ pull'[p].pc \notin {"Killed", "idle"}) =>
                \A s \in Sums \ {pull'[p].sum} :
                    fs'[CachePath(s)] = fs[CachePath(s)]]_vars

\* The tag was moved after a pull: the next pull resolved the new identifier,
\* missed, fetched the new image and left the old entry as it was.
C20_Witness ==
    \E p \in DOMAIN pull :
        /\ prev[p].pc = "Done"
        /\ prev[p].fetches = 1
        /\ pull[p].pc = "Done"
        /\ pull[p].sum # prev[p].sum
        /\ pull[p].fetches = 1
        /\ ~pull[p].exists
        /\ Valid(fs, prev[p].sum)
        /\ Valid(fs, pull[p].sum)
        /\ Hash(fs[pull[p].to].data) = pull[p].sum

\* C21: an Artifact-registry pull that could not remove a corrupt cache entry
\* returns the error at once: it has armed no watcher, called no fetcher and
\* opened no file, the destination is as it was, the failing step changes
\* no file, and no pull goes on to the fetch with the corrupt entry in place.
C21_RemoveFailureEndsPull ==
    /\ [](\A p \in DOMAIN pull :
            LET c == pull[p] IN
            /\ c.pc = "RemoveFailed" =>
                  /\ HandlesBadChecksum(backend)
                  /\ c.err = "ErrBadChecksum" /\ ~c.exists
                  /\ c.fetches = 0 /\ ~c.armed
                  /\ ~c.opened /\ c.handles = {}
                  /\ "write" \notin c.cacheOps /\ "read" \notin c.cacheOps
                  /\ fs[c.to] = c.destBefore
            /\ (c.err = "ErrBadChecksum" /\ c.pc = "arm") =>
                  ~fs[CachePath(c.sum)].ex)
    /\ [][\A p \in DOMAIN pull :
            (pull[p].pc = "remove" /\ pull'[p].pc = "RemoveFailed") =>
                fs' = fs /\ guards' = guards]_vars

\* The corrupt entry could not be removed: it is still there, and the old
\* file at the destination is untouched.
C21_Witness ==
    \E p \in DOMAIN pull :
        /\ pull[p].pc = "RemoveFailed"
        /\ fs[CachePath(pull[p].sum)].ex
        /\ Hash(fs[CachePath(pull[p].sum)].data) # pull[p].sum
        /\ fs[pull[p].to].ex
        /\ fs[pull[p].to] = pull[p].destBefore
        /\ guards = {}

\* C22: a pull whose cache check failed with an error other than
\* ErrBadChecksum has returned an error and done nothing else: its only
\* cache operation is the check, it armed no watcher, called no fetcher and
\* opened no file, the destination is as it was, and the failing step
\* changes no file and no watcher.
C22_CheckErrorHasNoSideEffect ==
    /\ [](\A p \in DOMAIN pull :
            LET c == pull[p] IN
            c.err = "EIO" =>
                /\ c.pc = "CheckFailed"
                /\ ~c.exists
                /\ c.cacheOps = {"exists"}
                /\ c.fetches = 0 /\ ~c.armed
                /\ ~c.opened /\ c.handles = {}
                /\ fs[c.to] = c.destBefore)
    /\ [][\A p \in DOMAIN pull :
            (pull[p].pc = "exists" /\ pull'[p].pc = "CheckFailed") =>
                fs' = fs /\ guards' = guards]_vars

\* The check failed with another error on a cache that holds a valid entry
\* for the identifier: the entry and the destination are untouched.
C22_Witness ==
    \E p \in DOMAIN pull :
        /\ pull[p].pc = "CheckFailed"
        /\ pull[p].err = "EIO"
        /\ Valid(fs, pull[p].sum)
        /\ fs[pull[p].to].ex
        /\ fs[pull[p].to] = pull[p].destBefore
        /\ guards = {}

\* C23: a pull arms a watcher only with the cache enabled, after its cache
\* check reported the entry as not existing, for the cache path it is about
\* to fetch into; and an interruption of a pull that armed none changes no
\* file under the cache root.
C23_GuardOnlyOnMissPath ==
    /\ [](\A p \in DOMAIN pull :
            pull[p].armed =>
                /\ ~disabled
                /\ "exists" \in pull[p].cacheOps /\ ~pull[p].exists
                /\ pull[p].target \in CachePaths)
    /\ [][\A p \in DOMAIN pull :
            (pull[p].pc # "Killed" /\ pull'[p].pc = "Killed" /\ ~pull[p].armed) =>
                \A path \in CachePaths : fs'[path] = fs[path]]_vars

====
